---- MODULE Spec2Model ----
(***************************************************************************)
(* Model of StatLysis.py/AnalysisProgram.py: the loader, the preprocessor, *)
(* the statistical phases and the orchestrator AnalyzerApp.run_analysis.   *)
(*                                                                         *)
(* Text is a sequence of tokens ("2Gy" is <<"2", "Gy">>), so that          *)
(* str.replace, str.strip and pd.to_numeric are computed, not assumed.     *)
(* A numeric cell is a record [k, a, b]: k = "num" is the rational a/b     *)
(* (b > 0), k = "nan" is a missing value, k = "inf" an infinity of sign a, *)
(* k = "log1p" the value log(1 + a/b), k = "zscore" the value              *)
(* a * sqrt(n-1) / sqrt(b) of a column of n values.                        *)
(*                                                                         *)
(* A behaviour of Spec follows the application through its loads and       *)
(* through one run of run_analysis, statement by statement; what a library *)
(* call outside the repository does (a fit converging, a file being        *)
(* written) is an input of the step that makes the call.                   *)
(***************************************************************************)
EXTENDS Integers, Sequences, FiniteSets, TLC

VARIABLES
    held,        \* self.df, the Dataset held by the application
    ui,          \* the values offered by the response and CellLine comboboxes
    cfg,         \* the Analysis Configuration read by the current run
    df,          \* the local working dataset of run_analysis
    pc,          \* position of the handler that is running ("idle": none)
    log,         \* the lines of self.output_text
    dialog,      \* the last messagebox shown by the running handler
    written,     \* the artifacts written by the current run
    dirMade,     \* TRUE when the current run created its output directory
    outcome,     \* how the last run_analysis ended: "none", "returned", "raised"
    heldAtStart, \* self.df as it was when the current run started
    calls,       \* the functions the current run has called with its df
    tukeyRet,    \* what run_tukey returned for each factor of the current run
    tukeyIdx,    \* index of the next factor of the Tukey loop
    fnArgs,      \* the arguments of the pure function under check
    fnRet,       \* its result
    fnPc         \* "call" before it runs, "returned" after

vars == <<held, ui, cfg, df, pc, log, dialog, written, dirMade, outcome,
          heldAtStart, calls, tukeyRet, tukeyIdx, fnArgs, fnRet, fnPc>>

appVars == <<held, ui, cfg, df, pc, log, dialog, written, dirMade, outcome,
             heldAtStart, calls, tukeyRet, tukeyIdx>>

fnVars == <<fnArgs, fnRet, fnPc>>

-----------------------------------------------------------------------------
(* Bounds of the model. *)

\* rows on the first sheet of each spreadsheet of the folder
RowsPerFile == 3

\* the lines load_folder may append to the output box before a run clears it
MaxLoadLines == 2

\* the factors ticked in one Analysis Configuration
MaxFactors == 2

\* the longest column given to a pure function
MaxLen == 4

-----------------------------------------------------------------------------
(* Values. *)

Num(x) == [k |-> "num", a |-> x, b |-> 1]

NaN == [k |-> "nan", a |-> 0, b |-> 1]

Inf(s) == [k |-> "inf", a |-> s, b |-> 1]

IsNum(v) == v.k = "num"

IsNaN(v) == v.k = "nan"

Range(s) == {s[i] : i \in DOMAIN s}

RECURSIVE SumSeq(_)
SumSeq(s) == IF s = <<>> THEN 0 ELSE s[1] + SumSeq(Tail(s))

\* the subsequence of s at the positions where keep(i) holds, in order
RECURSIVE SelectIdx(_, _, _)
SelectIdx(s, keep(_), i) ==
    IF i > Len(s) THEN <<>>
    ELSE (IF keep(i) THEN <<s[i]>> ELSE <<>>) \o SelectIdx(s, keep, i + 1)

\* a / b of two numeric cells, as numpy divides: x/0 is an infinity, 0/0 and
\* anything with a missing operand is missing
Divide(x, y) ==
    IF ~IsNum(x) \/ ~IsNum(y) THEN NaN
    ELSE IF y.a = 0 THEN (IF x.a = 0 THEN NaN ELSE Inf(IF x.a > 0 THEN 1 ELSE -1))
    ELSE IF y.a > 0 THEN [k |-> "num", a |-> x.a * y.b, b |-> x.b * y.a]
    ELSE [k |-> "num", a |-> (0 - x.a) * y.b, b |-> x.b * (0 - y.a)]

-----------------------------------------------------------------------------
(* Text: str.replace("Gy", ""), str.strip() and pd.to_numeric. *)

ReplaceGy(s) == SelectSeq(s, LAMBDA t : t # "Gy")

RECURSIVE LStrip(_)
LStrip(s) == IF s # <<>> /\ s[1] = " " THEN LStrip(Tail(s)) ELSE s

RECURSIVE RStrip(_)
RStrip(s) ==
    IF s # <<>> /\ s[Len(s)] = " " THEN RStrip(SubSeq(s, 1, Len(s) - 1)) ELSE s

Strip(s) == RStrip(LStrip(s))

Digits == [t \in {"0", "1", "2", "3"} |-> CASE t = "0" -> 0 [] t = "1" -> 1
                                            [] t = "2" -> 2 [] t = "3" -> 3]

\* pd.to_numeric(..., errors='coerce'): the number a text spells, or missing
ToNumeric(s) ==
    IF Len(s) = 1 /\ s[1] \in DOMAIN Digits THEN Num(Digits[s[1]]) ELSE NaN

-----------------------------------------------------------------------------
(* Data frames: the set of columns and the rows, each a function of them. *)

MetaCols == <<"CellLine", "Radiation", "NP", "Dose">>

EmptyFrame == [cols |-> {}, rows |-> <<>>]

IsEmpty(d) == Len(d.rows) = 0 \/ d.cols = {}

Column(d, c) == [i \in DOMAIN d.rows |-> d.rows[i][c]]

Filter(d, keep(_)) == [d EXCEPT !.rows = SelectIdx(d.rows, keep, 1)]

\* df[c] = values: the column is added, or overwritten
SetColumn(d, c, values) ==
    [cols |-> d.cols \cup {c},
     rows |-> [i \in DOMAIN d.rows |->
                  [x \in d.cols \cup {c} |-> IF x = c THEN values[i] ELSE d.rows[i][x]]]]

NumericCols(d) ==
    {c \in d.cols : c \notin Range(MetaCols) /\ c # "Dose_numeric"}

-----------------------------------------------------------------------------
(* DATA LOADING *)

Unknown == <<"Unknown">>

\* The spreadsheets a folder may hold: the name, split at '_' with the
\* extension apart, and the first sheet.
FileName(f) ==
    CASE f = 1 -> [segs |-> << <<"Aggregated">>, <<"A549">>, <<"Xray">>,
                               <<"NDAuNP">>, <<"1", "Gy">> >>, ext |-> ".xlsx"]
      [] f = 2 -> [segs |-> << <<"Aggregated">>, <<"A549">>, <<"Xray">>,
                               <<"SemNDAuNP">>, <<" ", "2", "Gy">> >>, ext |-> ".xlsx"]
      [] f = 3 -> [segs |-> << <<"Aggregated">>, <<"notes">> >>, ext |-> ".xlsx"]

Sheet(f) ==
    CASE f = 1 -> [cols |-> {"NumROS", "NumNuclei"},
                   rows |-> [i \in 1..RowsPerFile |->
                       [c \in {"NumROS", "NumNuclei"} |->
                           IF c = "NumROS" THEN Num(i) ELSE Num(2)]]]
      [] f = 2 -> [cols |-> {"NumROS", "NumNuclei"},
                   rows |-> [i \in 1..RowsPerFile |->
                       [c \in {"NumROS", "NumNuclei"} |->
                           IF c = "NumROS" THEN Num(4) ELSE Num(i - 1)]]]
      [] f = 3 -> [cols |-> {"NumROS"},
                   rows |-> [i \in 1..RowsPerFile |->
                       [c \in {"NumROS"} |-> IF i = 1 THEN NaN ELSE Num(0 - i)]]]

AllFiles == 1..3

\* parts[1..4] of the split name (parts[2..5] here); too few parts is the
\* IndexError, and every field is then "Unknown"
parse_metadata_from_filename(name) ==
    LET parts == name.segs IN
    IF Len(parts) >= 5
    THEN [c \in Range(MetaCols) |->
             CASE c = "CellLine" -> parts[2]
               [] c = "Radiation" -> parts[3]
               [] c = "NP" -> parts[4]
               [] c = "Dose" -> Strip(ReplaceGy(parts[5]))]
    ELSE [c \in Range(MetaCols) |-> Unknown]

\* the first sheet with the metadata as constant columns; a read failure
\* gives an empty frame (the cells of the sheets above are numbers already:
\* the comma-to-period conversion of text columns finds nothing to convert)
read_aggregated_excel(f, readable) ==
    LET metadata == parse_metadata_from_filename(FileName(f))
        sheet == Sheet(f)
        cols == sheet.cols \cup Range(MetaCols)
    IN IF ~readable THEN EmptyFrame
       ELSE [cols |-> cols,
             rows |-> [i \in DOMAIN sheet.rows |->
                 [c \in cols |-> IF c \in Range(MetaCols) THEN metadata[c]
                                 ELSE sheet.rows[i][c]]]]

\* pd.concat(dfs, ignore_index=True): the union of the columns, a cell of a
\* column its frame lacks is missing
RECURSIVE Concat(_, _)
Concat(dfs, cols) ==
    IF dfs = <<>> THEN <<>>
    ELSE [i \in DOMAIN dfs[1].rows |->
             [c \in cols |-> IF c \in dfs[1].cols THEN dfs[1].rows[i][c] ELSE NaN]]
         \o Concat(Tail(dfs), cols)

RECURSIVE FramesOf(_, _, _)
FramesOf(folder, unreadable, f) ==
    IF f > Cardinality(AllFiles) THEN <<>>
    ELSE (IF f \in folder
             /\ FileName(f).ext = ".xlsx"
             /\ Len(FileName(f).segs) >= 2
             /\ FileName(f).segs[1] = <<"Aggregated">>
             /\ ~IsEmpty(read_aggregated_excel(f, f \notin unreadable))
          THEN <<read_aggregated_excel(f, f \notin unreadable)>>
          ELSE <<>>) \o FramesOf(folder, unreadable, f + 1)

load_all_aggregated_data(folder, unreadable) ==
    LET dfs == FramesOf(folder, unreadable, 1)
        cols == UNION {dfs[i].cols : i \in DOMAIN dfs}
    IN IF dfs = <<>> THEN EmptyFrame
       ELSE [cols |-> cols, rows |-> Concat(dfs, cols)]

-----------------------------------------------------------------------------
(* PREPROCESSING *)

Z_THRESH == 3

MinRows == 5

\* The z-score of stats.zscore(..., nan_policy='omit'), kept exact: with n the
\* number of present values, S their sum and Q the sum of (n*x_i - S)^2,
\* |z_i| < t  iff  n * (n*x_i - S)^2 < t^2 * Q, and z_i is missing when x_i is
\* missing or when Q = 0 (0/0).
Present(col) == {i \in DOMAIN col : IsNum(col[i])}

SumDev2(col, n, S) ==
    SumSeq([i \in DOMAIN col |->
               IF IsNum(col[i]) THEN (n * col[i].a - S) * (n * col[i].a - S) ELSE 0])

\* n, S, Q and the smallest and largest present value of a column of integers
StatsOf(col, n, S) ==
    [n |-> n, S |-> S, Q |-> SumDev2(col, n, S),
     min |-> IF n = 0 THEN 0
             ELSE CHOOSE x \in {col[i].a : i \in Present(col)} :
                      \A j \in Present(col) : x <= col[j].a,
     max |-> IF n = 0 THEN 0
             ELSE CHOOSE x \in {col[i].a : i \in Present(col)} :
                      \A j \in Present(col) : x >= col[j].a]

ColStats(col) ==
    StatsOf(col, Cardinality(Present(col)),
            SumSeq([i \in DOMAIN col |-> IF IsNum(col[i]) THEN col[i].a ELSE 0]))

Dev(v, st) == st.n * v.a - st.S

ZIsNaN(v, st) == ~IsNum(v) \/ st.Q = 0

\* np.abs(z) < t for the z-score of cell v, FALSE for a missing z
ZLess(v, st, t) ==
    ~ZIsNaN(v, st) /\ st.n * Dev(v, st) * Dev(v, st) < t * t * st.Q

\* np.abs(z) >= t, FALSE for a missing z
ZGeq(v, st, t) ==
    ~ZIsNaN(v, st) /\ st.n * Dev(v, st) * Dev(v, st) >= t * t * st.Q

RemoveWith(d, col, st, z_thresh) ==
    [df |-> Filter(d, LAMBDA i : ZLess(col[i], st, z_thresh)),
     out |-> Cardinality({i \in DOMAIN col : ZGeq(col[i], st, z_thresh)})]

remove_outliers(d, response_var, z_thresh) ==
    RemoveWith(d, Column(d, response_var), ColStats(Column(d, response_var)), z_thresh)

Log1p(v) ==
    IF ~IsNum(v) THEN NaN
    ELSE IF v.a + v.b > 0 THEN [k |-> "log1p", a |-> v.a, b |-> v.b]
    ELSE IF v.a + v.b = 0 THEN Inf(-1)
    ELSE NaN

\* (x - mean) / std with the sample standard deviation: missing for fewer
\* than two present values and for 0/0
ZScoreCell(v, st) ==
    IF ~IsNum(v) \/ st.n < 2 \/ st.Q = 0 THEN NaN
    ELSE [k |-> "zscore", a |-> Dev(v, st), b |-> st.Q]

\* (x - min) / max
MinMaxCellByMax(v, st) ==
    IF ~IsNum(v) THEN NaN
    ELSE Divide(Num(v.a - st.min), Num(st.max))

\* (x - min) / (max - min)
MinMaxCell(v, st) ==
    IF ~IsNum(v) THEN NaN
    ELSE Divide(Num(v.a - st.min), Num(st.max - st.min))

NormalizeWith(d, response_var, method, col, st) ==
    CASE method = "log1p" ->
            SetColumn(d, response_var, [i \in DOMAIN col |-> Log1p(col[i])])
      [] method = "zscore" ->
            SetColumn(d, response_var, [i \in DOMAIN col |-> ZScoreCell(col[i], st)])
      [] method = "minmax" ->
            SetColumn(d, response_var, [i \in DOMAIN col |-> MinMaxCell(col[i], st)])
      [] OTHER -> d

apply_normalization(d, response_var, method) ==
    NormalizeWith(d, response_var, method, Column(d, response_var),
                  ColStats(Column(d, response_var)))

\* the four ratio columns, each computed when both of its columns are there
DerivedSpecs ==
    << <<"ROS_per_Nucleus", "NumROS", "NumNuclei">>,
       <<"Fluo_per_Nucleus", "TotalROSFluorescence", "NumNuclei">>,
       <<"Area_per_ROS", "TotalROSArea", "NumROS">>,
       <<"LDAreaRed_per_Nucleus", "TotalLDAreaRed", "NumNuclei">> >>

RECURSIVE AddDerived(_, _)
AddDerived(d, k) ==
    IF k > Len(DerivedSpecs) THEN d
    ELSE LET s == DerivedSpecs[k] IN
         AddDerived(IF s[2] \in d.cols /\ s[3] \in d.cols
                    THEN SetColumn(d, s[1],
                             [i \in DOMAIN d.rows |-> Divide(d.rows[i][s[2]], d.rows[i][s[3]])])
                    ELSE d,
                    k + 1)

create_derived_vars(d) == AddDerived(d, 1)

-----------------------------------------------------------------------------
(* STATISTICAL ANALYSIS *)

nunique(d, c) == Cardinality(Range(Column(d, c)))

\* The fit itself is statsmodels': whether it can be made is an input.
perform_anova(d, response_var, factors, fits) ==
    IF fits THEN [kind |-> "result"] ELSE [kind |-> "raised"]

\* the guard off by one: a single group reaches the pairwise test
run_tukey_one_group(d, response_var, factor, fits) ==
    IF nunique(d, factor) < 1 THEN [kind |-> "skipped", pairwise |-> FALSE]
    ELSE IF fits THEN [kind |-> "result", pairwise |-> TRUE]
    ELSE [kind |-> "raised", pairwise |-> TRUE]

\* With fewer than two groups the sentence is returned and pairwise_tukeyhsd
\* is not called; otherwise the pair (summary, table), or its exception.
run_tukey(d, response_var, factor, fits) ==
    IF nunique(d, factor) < 2 THEN [kind |-> "skipped", pairwise |-> FALSE]
    ELSE IF fits THEN [kind |-> "result", pairwise |-> TRUE]
    ELSE [kind |-> "raised", pairwise |-> TRUE]

run_regression(d, response_var, num_var, cat_var, fits) ==
    IF fits THEN [kind |-> "result"] ELSE [kind |-> "raised"]

-----------------------------------------------------------------------------
(* The application: AnalyzerApp. *)

self_factors == <<"Dose", "Radiation", "CellLine", "NP">>

NormValues == {"None", "log1p", "zscore", "minmax"}

Ln(msg) == [msg |-> msg, n |-> 0, s |-> ""]

LnN(msg, n) == [msg |-> msg, n |-> n, s |-> ""]

LnS(msg, s) == [msg |-> msg, n |-> 0, s |-> s]

Art(name, s) == <<name, s>>

NoCfg ==
    [y |-> "", factors |-> <<>>, cl |-> <<"--">>, np |-> <<"--">>,
     derived |-> FALSE, outlier |-> FALSE, norm |-> "None"]

\* the NP values offered once a CellLine is selected
update_np_options(val) ==
    IF val = <<"A549">> THEN {<<"--">>, <<"NDAuNP">>, <<"SemNDAuNP">>}
    ELSE IF val = <<"MCF7">> THEN {<<"--">>, <<"AuNP">>, <<"SemAuNP">>}
    ELSE {<<"--">>}

Configs ==
    UNION {
      {[y |-> y, factors |-> SelectSeq(self_factors, LAMBDA f : f \in fs),
        cl |-> cl, np |-> np, derived |-> dv, outlier |-> ov, norm |-> nm] :
          y \in {""} \cup ui.response,
          fs \in {x \in SUBSET Range(self_factors) : Cardinality(x) <= MaxFactors},
          np \in update_np_options(cl),
          dv \in BOOLEAN, ov \in BOOLEAN, nm \in NormValues} :
      cl \in ui.cellline}

ResetRun ==
    /\ written' = {}
    /\ dirMade' = FALSE
    /\ calls' = {}
    /\ tukeyRet' = <<>>
    /\ tukeyIdx' = 1

\* load_folder: the held Dataset is replaced by what the folder holds
load_folder(folder, unreadable) ==
    /\ pc = "idle"
    /\ outcome = "none"
    /\ Len(log) < MaxLoadLines
    /\ LET loaded == load_all_aggregated_data(folder, unreadable)
           stripped == [loaded EXCEPT !.rows =
                           [i \in DOMAIN loaded.rows |->
                               [c \in loaded.cols |->
                                   IF c \in Range(MetaCols) THEN Strip(loaded.rows[i][c])
                                   ELSE loaded.rows[i][c]]]]
       IN IF IsEmpty(loaded)
          THEN /\ held' = loaded
               /\ dialog' = "No data found."
               /\ UNCHANGED <<ui, log>>
          ELSE /\ held' = stripped
               /\ ui' = [response |-> NumericCols(stripped),
                         cellline |-> {<<"--">>} \cup Range(Column(stripped, "CellLine"))]
               /\ log' = Append(log, Ln("Data loaded."))
               /\ dialog' = ""
    /\ UNCHANGED <<cfg, df, pc, written, dirMade, outcome, heldAtStart,
                   calls, tukeyRet, tukeyIdx, fnVars>>

\* df = self.df: the same object under another name
DataFrameAlias(d) == [frame |-> d, shares |-> TRUE]

\* df = self.df.copy(): a new object with the same contents
DataFrameCopy(d) == [frame |-> d, shares |-> FALSE]

\* run_analysis from the copy to the normalization (lines 317 to 343), one
\* statement after the other
\* the row count forgotten: only an empty frame ends the run
TooFewOnlyEmpty(d) == IsEmpty(d)

TooFew(d) == IsEmpty(d) \/ Len(d.rows) < MinRows

Prepared(c, d, ro, shared) ==
    LET few == TooFew(ro.df) IN
    [df |-> IF ~few /\ c.norm # "None" THEN apply_normalization(ro.df, c.y, c.norm)
            ELSE ro.df,
     few |-> few,
     heldAfter |-> shared,
     log |-> (IF c.derived THEN <<Ln("Derived variables added.")>> ELSE <<>>)
             \o (IF c.outlier THEN <<LnN("Removed outliers", ro.out)>> ELSE <<>>)
             \o (IF few THEN <<Ln("Too few data points.")>>
                 ELSE IF c.norm # "None" THEN <<LnS("Normalized using", c.norm)>>
                 ELSE <<>>)]

Outliers(c, d, shared) ==
    Prepared(c, d, IF c.outlier THEN remove_outliers(d, c.y, Z_THRESH)
                   ELSE [df |-> d, out |-> 0], shared)

Derived(c, d, shared) ==
    Outliers(c, IF c.derived THEN create_derived_vars(d) ELSE d, shared)

DropNa(c, d, shared) ==
    Derived(c, Filter(d, LAMBDA i : ~IsNaN(d.rows[i][c.y])), shared)

\* df['Dose_numeric'] = ... writes into the object df names: into the held
\* Dataset too when df shares it
DoseNumeric(c, d, shares) ==
    DropNa(c, d, IF shares THEN d ELSE held)

Filtered(c, d, shares) ==
    DoseNumeric(c,
        SetColumn(d, "Dose_numeric",
            [i \in DOMAIN d.rows |-> ToNumeric(Strip(ReplaceGy(d.rows[i]["Dose"])))]),
        shares)

\* a boolean selection is a new object; without one df is still the copy
FilterNP(c, d, shares) ==
    IF c.np # <<"--">>
    THEN Filtered(c, Filter(d, LAMBDA i : d.rows[i]["NP"] = c.np), FALSE)
    ELSE Filtered(c, d, shares)

FilterCellLine(c, d, shares) ==
    IF c.cl # <<"--">>
    THEN FilterNP(c, Filter(d, LAMBDA i : d.rows[i]["CellLine"] = c.cl), FALSE)
    ELSE FilterNP(c, d, shares)

Prepare(c) ==
    FilterCellLine(c, DataFrameCopy(held).frame, DataFrameCopy(held).shares)

\* The start of run_analysis: the output box is cleared, the configuration is
\* read from the widgets, the working copy is filtered and transformed.
run_analysis_start ==
    /\ pc = "idle"
    /\ outcome = "none"
    /\ heldAtStart' = held
    /\ ResetRun
    /\ IF IsEmpty(held)
       THEN /\ dialog' = "Load data first."
            /\ log' = <<>>
            /\ outcome' = "returned"
            /\ cfg' = NoCfg
            /\ df' = EmptyFrame
            /\ UNCHANGED <<held, pc>>
       ELSE \E c \in Configs :
            /\ cfg' = c
            /\ dialog' = ""
            /\ IF c.y = "" \/ c.factors = <<>>
               THEN /\ log' = <<Ln("Select a response variable and factors.")>>
                    /\ outcome' = "returned"
                    /\ df' = held
                    /\ UNCHANGED <<held, pc>>
               ELSE \E p \in {Prepare(c)} :
                    /\ df' = p.df
                    /\ held' = p.heldAfter
                    /\ log' = p.log
                    /\ outcome' = IF p.few THEN "returned" ELSE "none"
                    /\ pc' = IF p.few THEN "idle" ELSE "mkdir"
    /\ UNCHANGED <<ui, fnVars>>

Finish(how) ==
    /\ outcome' = how
    /\ pc' = "idle"

\* output_dir = make_output_dir(...): os.makedirs outside any try
make_output_dir_step(made) ==
    /\ pc = "mkdir"
    /\ calls' = calls \cup {"make_output_dir"}
    /\ IF made
       THEN /\ dirMade' = TRUE
            /\ pc' = "anova"
            /\ UNCHANGED outcome
       ELSE /\ Finish("raised")
            /\ UNCHANGED dirMade
    /\ UNCHANGED <<held, ui, cfg, df, log, dialog, written, heldAtStart,
                   tukeyRet, tukeyIdx, fnVars>>

\* the ANOVA phase: the except branch logs and returns
anova_step(fits, saved) ==
    /\ pc = "anova"
    /\ calls' = calls \cup {"perform_anova"}
    /\ IF perform_anova(df, cfg.y, cfg.factors, fits).kind = "result" /\ saved
       THEN /\ written' = written \cup {Art("anova.csv", "")}
            /\ log' = Append(log, Ln("ANOVA"))
            /\ pc' = "tukey"
            /\ UNCHANGED outcome
       ELSE /\ log' = Append(log, Ln("ANOVA failed"))
            /\ Finish("returned")
            /\ UNCHANGED written
    /\ tukeyIdx' = 1
    /\ UNCHANGED <<held, ui, cfg, df, dialog, dirMade, heldAtStart, tukeyRet, fnVars>>

\* one pass of the Tukey loop; result, data = ... cannot unpack the sentence
\* returned for a single group, and that ValueError is caught as well
tukey_step(fits, saved) ==
    /\ pc = "tukey"
    /\ IF tukeyIdx > Len(cfg.factors)
       THEN /\ pc' = "plot"
            /\ UNCHANGED <<calls, tukeyRet, tukeyIdx, written, log>>
       ELSE LET f == cfg.factors[tukeyIdx]
                ret == run_tukey(df, cfg.y, f, fits)
            IN /\ calls' = calls \cup {"run_tukey"}
               /\ tukeyRet' = Append(tukeyRet, [factor |-> f, ret |-> ret])
               /\ tukeyIdx' = tukeyIdx + 1
               /\ IF ret.kind = "result" /\ saved
                  THEN /\ written' = written \cup {Art("tukey.csv", f)}
                       /\ log' = Append(log, LnS("Tukey HSD", f))
                  ELSE /\ log' = Append(log, LnS("Tukey error", f))
                       /\ UNCHANGED written
               /\ UNCHANGED pc
    /\ UNCHANGED <<held, ui, cfg, df, dialog, dirMade, outcome, heldAtStart, fnVars>>

\* the plot grid: a failure before or after savefig is logged
plot_grid_step(stage) ==
    /\ pc = "plot"
    /\ calls' = calls \cup {"plot_grid"}
    /\ written' = IF stage \in {"saved", "shown"}
                  THEN written \cup {Art("plot_grid.png", cfg.y)} ELSE written
    /\ log' = IF stage = "shown" THEN log ELSE Append(log, Ln("Grid plot error"))
    /\ pc' = "regression"
    /\ UNCHANGED <<held, ui, cfg, df, dialog, dirMade, outcome, heldAtStart,
                   tukeyRet, tukeyIdx, fnVars>>

\* regression, conclusion and the plot of the competing models, in one try:
\* done counts the calls that succeeded before the first failure
regression_step(done) ==
    /\ pc = "regression"
    /\ LET cat == IF Len(cfg.factors) > 1 THEN cfg.factors[2] ELSE cfg.factors[1]
           model == run_regression(df, cfg.y, "Dose_numeric", cat, done >= 1)
       IN IF "Dose_numeric" \in df.cols
          THEN /\ calls' = calls \cup {"run_regression"}
                      \cup (IF model.kind = "result" /\ done >= 2
                            THEN {"generate_conclusion"} ELSE {})
                      \cup (IF model.kind = "result" /\ done >= 3
                            THEN {"plot_regression_models"} ELSE {})
               /\ written' = written
                      \cup (IF done >= 2 THEN {Art("regression.txt", "")} ELSE {})
                      \cup (IF done >= 3 THEN {Art("conclusion.txt", "")} ELSE {})
                      \cup (IF done >= 4 THEN {Art("regression_models.png", cfg.y)} ELSE {})
               /\ log' = log
                      \o (IF done >= 2 THEN <<Ln("Regression summary")>> ELSE <<>>)
                      \o (IF done >= 3 THEN <<Ln("Conclusion")>> ELSE <<>>)
                      \o (IF done >= 4 THEN <<>> ELSE <<Ln("Regression error")>>)
          ELSE UNCHANGED <<calls, written, log>>
    /\ pc' = "save"
    /\ UNCHANGED <<held, ui, cfg, df, dialog, dirMade, outcome, heldAtStart,
                   tukeyRet, tukeyIdx, fnVars>>

\* df.to_csv(...) outside any try, then the closing line
save_step(saved) ==
    /\ pc = "save"
    /\ calls' = calls \cup {"to_csv"}
    /\ IF saved
       THEN /\ written' = written \cup {Art("filtered_data.csv", "")}
            /\ log' = Append(log, Ln("Saved in"))
            /\ Finish("returned")
       ELSE /\ Finish("raised")
            /\ UNCHANGED <<written, log>>
    /\ UNCHANGED <<held, ui, cfg, df, dialog, dirMade, heldAtStart,
                   tukeyRet, tukeyIdx, fnVars>>

FnIdle ==
    /\ fnArgs = <<>>
    /\ fnRet = <<>>
    /\ fnPc = "none"

Init ==
    /\ held = EmptyFrame
    /\ ui = [response |-> {}, cellline |-> {}]
    /\ cfg = NoCfg
    /\ df = EmptyFrame
    /\ pc = "idle"
    /\ log = <<>>
    /\ dialog = ""
    /\ written = {}
    /\ dirMade = FALSE
    /\ outcome = "none"
    /\ heldAtStart = EmptyFrame
    /\ calls = {}
    /\ tukeyRet = <<>>
    /\ tukeyIdx = 1
    /\ FnIdle

Next ==
    \/ /\ pc = "idle"
       /\ \E folder \in SUBSET AllFiles : \E unreadable \in SUBSET folder :
              load_folder(folder, unreadable)
    \/ run_analysis_start
    \/ \E made \in BOOLEAN : make_output_dir_step(made)
    \/ \E fits \in BOOLEAN, saved \in BOOLEAN : anova_step(fits, saved)
    \/ \E fits \in BOOLEAN, saved \in BOOLEAN : tukey_step(fits, saved)
    \/ \E stage \in {"failed", "saved", "shown"} : plot_grid_step(stage)
    \/ \E done \in 0..4 : regression_step(done)
    \/ \E saved \in BOOLEAN : save_step(saved)

Spec == Init /\ [][Next]_vars

-----------------------------------------------------------------------------
(* AI-LIKE INTERPRETATION: generate_conclusion.  R squared is counted in    *)
(* hundredths and a p-value in ten-thousandths, so 0.2, 0.5 and 0.05 are    *)
(* 20, 50 and 500; a model is [rsquared, params, pvalues], the last two     *)
(* functions of the term names.  The sentence is kept as its parts.         *)

R2_MODERATE == 20

R2_STRONG == 50

P_SIGNIFICANT == 500

\* x < c as Python compares floats: FALSE for nan
Lt(v, c) == IsNum(v) /\ v.a < c * v.b

Gt(v, c) == IsNum(v) /\ v.a > c * v.b

\* Series.get(key, default)
Get(series, key, default) == IF key \in DOMAIN series THEN series[key] ELSE default

\* the thresholds taken inclusive
StrengthInclusive(r2) ==
    IF ~Gt(r2, R2_MODERATE) /\ IsNum(r2) THEN "weak"
    ELSE IF ~Gt(r2, R2_STRONG) /\ IsNum(r2) THEN "moderate"
    ELSE "strong"

Strength(r2) ==
    IF Lt(r2, R2_MODERATE) THEN "weak"
    ELSE IF Lt(r2, R2_STRONG) THEN "moderate"
    ELSE "strong"

Direction(coef_dose) ==
    IF Gt(coef_dose, 0) THEN "increase"
    ELSE IF Lt(coef_dose, 0) THEN "decrease"
    ELSE "remain constant"

Significance(p_value) ==
    IF Lt(p_value, P_SIGNIFICANT) THEN "significant" ELSE "not significant"

\* Term names are token sequences: "Dose_numeric:C(NP)[T.AuNP]" is
\* <<"Dose_numeric", ":", "C(", "NP", ")", "[T.", "AuNP", "]">>.
DoseTerm == <<"Dose_numeric">>

\* "Dose_numeric:C(" in term
IsInteraction(term) ==
    \E i \in 1..(Len(term) - 2) :
        term[i] = "Dose_numeric" /\ term[i + 1] = ":" /\ term[i + 2] = "C("

IndexOf(term, tok) == CHOOSE i \in DOMAIN term : term[i] = tok /\ \A j \in 1..(i - 1) : term[j] # tok

\* term.split(":")[1].split("[")[0].replace("C(", "").replace(")", "")
FactorName(term) ==
    SelectSeq(SubSeq(term, IndexOf(term, ":") + 1, IndexOf(term, "[T.") - 1),
              LAMBDA t : t # "C(" /\ t # ")")

\* term.split("[T.")[1].split("]")[0]
Level(term) == SubSeq(term, IndexOf(term, "[T.") + 1, IndexOf(term, "]") - 1)

generate_conclusion(model, response_var, cat_factor) ==
    [r2 |-> model.rsquared,
     response |-> response_var,
     strength |-> Strength(model.rsquared),
     direction |-> Direction(Get(model.params, DoseTerm, Num(0))),
     sig |-> Significance(Get(model.pvalues, DoseTerm, Num(10000))),
     p |-> Get(model.pvalues, DoseTerm, Num(10000)),
     differs |-> {[factor |-> FactorName(t), level |-> Level(t)] :
                     t \in {u \in DOMAIN model.params :
                               IsInteraction(u) /\ Lt(model.pvalues[u], P_SIGNIFICANT)}}]

-----------------------------------------------------------------------------
(* REGRESSION COMPARISON PLOT: plot_regression_models.  The result is the   *)
(* mapping models the function plots, or the exception it raises.           *)

\* np.polyfit raises on an empty vector; on a missing value the least-squares
\* routine may fail to converge (nanRaises) or return missing coefficients
PolyfitRaises(rows, nanRaises) ==
    \/ Len(rows) = 0
    \/ /\ nanRaises
       /\ \E i \in DOMAIN rows : ~IsNum(rows[i].x) \/ ~IsNum(rows[i].y)

\* curve_fit with two parameters raises on fewer than two points and on a
\* value that is not finite; otherwise it converges or exhausts maxfev
CurveFitRaises(rows, converges) ==
    \/ Len(rows) < 2
    \/ \E i \in DOMAIN rows : ~IsNum(rows[i].x) \/ ~IsNum(rows[i].y)
    \/ ~converges

\* df[df[y] >= 0]
NonNegativeY(rows) == SelectSeq(rows, LAMBDA r : Gt(r.y, 0) \/ (IsNum(r.y) /\ r.y.a = 0))

\* df[df[y] > 0]
PositiveY(rows) == SelectSeq(rows, LAMBDA r : Gt(r.y, 0))

\* df[df[x] > 0]
PositiveX(rows) == SelectSeq(rows, LAMBDA r : Gt(r.x, 0))

plot_regression_models(rows, nanRaises, expConverges, logConverges) ==
    IF PolyfitRaises(rows, nanRaises)
    THEN [raised |-> TRUE, models |-> {}]
    ELSE [raised |-> FALSE,
          models |-> {"Linear", "Poly2", "Poly3"}
              \cup (IF CurveFitRaises(PositiveY(rows), expConverges)
                    THEN {} ELSE {"Exponential"})
              \cup (IF CurveFitRaises(PositiveX(rows), logConverges)
                    THEN {} ELSE {"Logarithmic"})
              \cup (IF PolyfitRaises(PositiveY(rows), nanRaises)
                    THEN {} ELSE {"Log-Linear"})]

-----------------------------------------------------------------------------
(* The functions on their own: the arguments are chosen at the start, one   *)
(* step calls the function.                                                 *)

MaxPoints == 3

AppIdle ==
    /\ held = EmptyFrame
    /\ ui = [response |-> {}, cellline |-> {}]
    /\ cfg = NoCfg
    /\ df = EmptyFrame
    /\ pc = "idle"
    /\ log = <<>>
    /\ dialog = ""
    /\ written = {}
    /\ dirMade = FALSE
    /\ outcome = "none"
    /\ heldAtStart = EmptyFrame
    /\ calls = {}
    /\ tukeyRet = <<>>
    /\ tukeyIdx = 1

SeqsUpTo(S, n) == UNION {[1..k -> S] : k \in 0..n}

\* a frame of one response column "y", the rows numbered in "id"
FrameOf(col) ==
    [cols |-> {"id", "y"},
     rows |-> [i \in DOMAIN col |-> [c \in {"id", "y"} |-> IF c = "id" THEN Num(i) ELSE col[i]]]]

CellValues == {NaN, Num(0), Num(1), Num(4)}

InitOutliers ==
    /\ AppIdle
    /\ fnArgs \in {[col |-> col, z_thresh |-> t] :
                      col \in SeqsUpTo(CellValues, MaxLen), t \in {1, 2, Z_THRESH}}
    /\ fnRet = <<>>
    /\ fnPc = "call"

call_remove_outliers ==
    /\ fnPc = "call"
    /\ fnRet' = remove_outliers(FrameOf(fnArgs.col), "y", fnArgs.z_thresh)
    /\ fnPc' = "returned"
    /\ UNCHANGED <<fnArgs, appVars>>

SpecOutliers == InitOutliers /\ [][call_remove_outliers]_vars

InitNorm ==
    /\ AppIdle
    /\ fnArgs \in {[col |-> col, method |-> m] :
                      col \in SeqsUpTo(CellValues, MaxLen), m \in NormValues}
    /\ fnRet = <<>>
    /\ fnPc = "call"

call_apply_normalization ==
    /\ fnPc = "call"
    /\ fnRet' = apply_normalization(FrameOf(fnArgs.col), "y", fnArgs.method)
    /\ fnPc' = "returned"
    /\ UNCHANGED <<fnArgs, appVars>>

SpecNorm == InitNorm /\ [][call_apply_normalization]_vars

PointValues ==
    {[x |-> x, y |-> y] : x \in {NaN, Num(0), Num(2)}, y \in {Num(-1), Num(0), Num(1)}}

InitFit ==
    /\ AppIdle
    /\ fnArgs \in SeqsUpTo(PointValues, MaxPoints)
    /\ fnRet = <<>>
    /\ fnPc = "call"

call_plot_regression_models ==
    /\ fnPc = "call"
    /\ \E nanRaises \in BOOLEAN, expConverges \in BOOLEAN, logConverges \in BOOLEAN :
           fnRet' = plot_regression_models(fnArgs, nanRaises, expConverges, logConverges)
    /\ fnPc' = "returned"
    /\ UNCHANGED <<fnArgs, appVars>>

SpecFit == InitFit /\ [][call_plot_regression_models]_vars

R2Values == {NaN, Num(0), Num(19), Num(20), Num(49), Num(50), Num(100)}

CoefValues == {NaN, Num(-1), Num(0), Num(1)}

PValues == {NaN, Num(0), Num(499), Num(500), Num(10000)}

Series(keys, v, w) ==
    [t \in keys |-> IF t = DoseTerm THEN v ELSE w]

InterceptTerm == <<"Intercept">>

MainTerm == <<"C(", "NP", ")", "[T.", "SemNDAuNP", "]">>

InteractionTerm == <<"Dose_numeric", ":", "C(", "NP", ")", "[T.", "SemNDAuNP", "]">>

Models ==
    {[rsquared |-> r2, params |-> Series(keys, c, Num(1)), pvalues |-> Series(keys, p, q)] :
        r2 \in R2Values, c \in CoefValues, p \in PValues, q \in {Num(499), Num(500)},
        keys \in {{InterceptTerm}, {InterceptTerm, DoseTerm},
                  {InterceptTerm, DoseTerm, MainTerm, InteractionTerm}}}

InitConclusion ==
    /\ AppIdle
    /\ fnArgs \in Models
    /\ fnRet = <<>>
    /\ fnPc = "call"

call_generate_conclusion ==
    /\ fnPc = "call"
    /\ fnRet' = generate_conclusion(fnArgs, "NumROS", "NP")
    /\ fnPc' = "returned"
    /\ UNCHANGED <<fnArgs, appVars>>

SpecConclusion == InitConclusion /\ [][call_generate_conclusion]_vars

-----------------------------------------------------------------------------
(* Properties of run_analysis, checked under Spec. *)

RunStarted == pc # "idle" \/ outcome # "none"

RunEnded == pc = "idle" /\ outcome # "none"

\* the run read a response variable and factors and prepared its working df
RunPrepared == RunStarted /\ ~IsEmpty(heldAtStart) /\ cfg.y # "" /\ cfg.factors # <<>>

Logged(msg) == \E i \in DOMAIN log : log[i].msg = msg

ModellingCalls ==
    {"perform_anova", "run_tukey", "run_regression", "plot_regression_models"}

\* C1: no exception propagates out of run_analysis: whichever step fails,
\* the run ends by returning normally.
C1_NoExceptionEscapes == outcome # "raised"

\* C2: when the ANOVA phase fails, the later independent phases (plot grid,
\* regression and conclusion, writing filtered_data.csv) are still executed
\* before the run ends.
C2_AnovaFailureDoesNotAbort ==
    (RunEnded /\ Logged("ANOVA failed")) =>
        {"plot_grid", "run_regression", "to_csv"} \subseteq calls

\* C3: when the working dataset is empty or has fewer than 5 rows after the
\* filters, the drop of missing responses and the optional outlier removal,
\* the run logs the message and ends with no output directory, no call of a
\* later phase and no artifact.
C3_TooFewEndsRun ==
    (RunPrepared /\ (IsEmpty(df) \/ Len(df.rows) < MinRows)) =>
        /\ RunEnded
        /\ outcome = "returned"
        /\ log # <<>>
        /\ log[Len(log)] = Ln("Too few data points.")
        /\ ~dirMade
        /\ written = {}
        /\ calls = {}

\* a run that a dataset of enough rows started and that ended on too few,
\* the outlier removal switched on
C3_Witness ==
    /\ RunPrepared
    /\ RunEnded
    /\ cfg.outlier
    /\ Len(heldAtStart.rows) >= MinRows
    /\ Len(df.rows) < MinRows
    /\ Logged("Too few data points.")

\* C7: for a factor with fewer than 2 distinct levels run_tukey returns the
\* skipped sentinel, does not raise and does not attempt the pairwise test.
C7_TukeySkipsSingleGroup ==
    \A i \in DOMAIN tukeyRet :
        Cardinality({df.rows[j][tukeyRet[i].factor] : j \in DOMAIN df.rows}) < 2 =>
            /\ tukeyRet[i].ret.kind = "skipped"
            /\ ~tukeyRet[i].ret.pairwise

\* run_tukey has returned the sentinel for one factor and a result for another
C7_Witness ==
    /\ \E i \in DOMAIN tukeyRet : tukeyRet[i].ret.kind = "skipped"
    /\ \E i \in DOMAIN tukeyRet : tukeyRet[i].ret.kind = "result"

\* C8: from the start of a run to its end, however it ends, the held Dataset
\* has the rows, columns and values it had when the run started.
C8_HeldNeverMutated == RunStarted => held = heldAtStart

\* a run that added the derived columns, normalized the response and wrote
\* filtered_data.csv, without a filter
C8_Witness ==
    /\ RunEnded
    /\ cfg.derived
    /\ cfg.norm = "minmax"
    /\ cfg.cl = <<"--">>
    /\ cfg.np = <<"--">>
    /\ Art("filtered_data.csv", "") \in written
    /\ df # held
    /\ "ROS_per_Nucleus" \in df.cols

\* C10: no row whose Dose has no numeric value is in the dataset passed to
\* perform_anova, run_tukey, run_regression or plot_regression_models.
C10_UnconvertibleDoseDropped ==
    (calls \cap ModellingCalls # {}) =>
        \A i \in DOMAIN df.rows : ~IsNaN(df.rows[i]["Dose_numeric"])

-----------------------------------------------------------------------------
(* Properties of the functions on their own. *)

Returned == fnPc = "returned"

Ids(d) == {d.rows[i]["id"].a : i \in DOMAIN d.rows}

\* C4: remove_outliers keeps every row whose absolute z-score is below the
\* threshold, and the count it reports is the number of rows of D that are
\* absent from the dataset it returns.
C4_OutlierCountIsRowsDropped ==
    Returned =>
        /\ \A i \in DOMAIN fnArgs.col :
               ZLess(fnArgs.col[i], ColStats(fnArgs.col), fnArgs.z_thresh)
                   => i \in Ids(fnRet.df)
        /\ fnRet.out = Cardinality(DOMAIN fnArgs.col \ Ids(fnRet.df))

NoPositiveY(rows) == \A i \in DOMAIN rows : ~(IsNum(rows[i].y) /\ rows[i].y.a > 0)

Finite(rows) == \A i \in DOMAIN rows : IsNum(rows[i].x) /\ IsNum(rows[i].y)

PresentValues(col) == {col[i].a : i \in {j \in DOMAIN col : col[j].k = "num"}}

IsLeast(x, col) == \A y \in PresentValues(col) : x <= y

IsGreatest(x, col) == \A y \in PresentValues(col) : x >= y

\* the result of minmax on column col: every present entry in [0,1], the
\* minimum at 0 and the maximum at 1
MinMaxHolds(col, out) ==
    \A i \in DOMAIN col :
        col[i].k = "num" =>
            /\ out.rows[i]["y"].k = "num"
            /\ out.rows[i]["y"].b > 0
            /\ 0 <= out.rows[i]["y"].a
            /\ out.rows[i]["y"].a <= out.rows[i]["y"].b
            /\ IsLeast(col[i].a, col) => out.rows[i]["y"].a = 0
            /\ IsGreatest(col[i].a, col) => out.rows[i]["y"].a = out.rows[i]["y"].b

\* C6, as claimed: minmax maps every present entry into [0,1], the minimum to
\* 0 and the maximum to 1, for every column with at least one present value.
C6_MinMaxAnyColumn ==
    (Returned /\ fnArgs.method = "minmax" /\ Cardinality(PresentValues(fnArgs.col)) >= 1)
        => MinMaxHolds(fnArgs.col, fnRet)

\* C6, amended: the same for every column with at least two distinct present
\* values; with all present values equal every entry is 0/0, a missing value.
C6_MinMaxTwoValues ==
    (Returned /\ fnArgs.method = "minmax" /\ Cardinality(PresentValues(fnArgs.col)) >= 2)
        => MinMaxHolds(fnArgs.col, fnRet)

\* a column of three distinct values and a missing one, normalized
C6_Witness ==
    /\ Returned
    /\ fnArgs.method = "minmax"
    /\ Cardinality(PresentValues(fnArgs.col)) = 3
    /\ \E i \in DOMAIN fnArgs.col : fnArgs.col[i].k = "nan"
    /\ \E i \in DOMAIN fnArgs.col :
           fnRet.rows[i]["y"].k = "num" /\ fnRet.rows[i]["y"].a = 1 /\ fnRet.rows[i]["y"].b = 4

Coef == IF DoseTerm \in DOMAIN fnArgs.params THEN fnArgs.params[DoseTerm] ELSE Num(0)

PVal == IF DoseTerm \in DOMAIN fnArgs.pvalues THEN fnArgs.pvalues[DoseTerm] ELSE Num(10000)

\* C9: the sentence says weak for R2 < 0.2, moderate for 0.2 <= R2 < 0.5 and
\* strong otherwise; increase, decrease or remain constant by the sign of the
\* Dose_numeric coefficient (0 when absent); significant exactly when the
\* Dose_numeric p-value is below 0.05 (not significant when absent).
C9_ConclusionTemplate ==
    Returned =>
        LET r2 == fnArgs.rsquared IN
        /\ fnRet.strength = "weak" <=> (r2.k = "num" /\ 5 * r2.a < 100)
        /\ fnRet.strength = "moderate" <=> (r2.k = "num" /\ 5 * r2.a >= 100 /\ 2 * r2.a < 100)
        /\ fnRet.strength \in {"weak", "moderate", "strong"}
        /\ fnRet.direction = "increase" <=> (Coef.k = "num" /\ Coef.a > 0)
        /\ fnRet.direction = "decrease" <=> (Coef.k = "num" /\ Coef.a < 0)
        /\ fnRet.direction \in {"increase", "decrease", "remain constant"}
        /\ fnRet.sig = "significant" <=> (PVal.k = "num" /\ 20 * PVal.a < 10000)
        /\ fnRet.sig \in {"significant", "not significant"}

\* a model at the 0.2 threshold with a negative, significant dose coefficient
C9_Witness ==
    /\ Returned
    /\ fnArgs.rsquared = Num(20)
    /\ fnRet.strength = "moderate"
    /\ fnRet.direction = "decrease"
    /\ fnRet.sig = "significant"
    /\ fnRet.differs # {}

====
